---- MODULE Spec2Model ----
(***************************************************************************)
(* Model of the KhepriEngine packaging recipe (conanfile.py) and of the    *)
(* Blender export script (cmake/ConvertBlender/ExportCollada.py).          *)
(*                                                                         *)
(* Python strings are sequences of one-character strings, so that slicing, *)
(* concatenation, int() and the regular expressions are modelled by what   *)
(* they do on characters.                                                  *)
(***************************************************************************)
EXTENDS Integers, Sequences, FiniteSets, TLC

VARIABLES
    \* --- the recipe object and the checkout it runs in (conanfile.py) ---
    pc,             \* position of the package manager in the recipe's life cycle
    git_tag,        \* outcome of git.run("describe --tags --abbrev=0"): GitError or its output
    git_revision,   \* outcome of git.get_revision(): GitError or the revision
    status_ok,      \* whether git.is_pristine() can read the working tree status
    tree_dirty,     \* whether the working tree has uncommitted changes
    version,        \* self.version
    tc_variables,   \* tc.variables of the CMakeToolchain built by generate()
    tc_generated,   \* whether tc.generate() has been called
    calls,          \* the external CMake steps invoked so far, with their outcome
    raised,         \* the method whose exception reached the package manager, or "none"
    \* --- a direct call of the static method _parse_version ---
    input,          \* the argument of _parse_version
    parse_pc,       \* "call" before and "returned" after the call
    parsed,         \* the value returned
    \* --- one run of ExportCollada.py ---
    argv,           \* sys.argv
    script_pc,      \* "start" or "done"
    stderr,         \* lines written to sys.stderr
    exit_status,    \* exit status of the script once script_pc = "done"
    export_calls    \* the bpy.ops.wm.collada_export calls made: filepath, and whether it returned

recipeVars == <<pc, git_tag, git_revision, status_ok, tree_dirty, version,
                tc_variables, tc_generated, calls, raised>>
parseVars  == <<input, parse_pc, parsed>>
scriptVars == <<argv, script_pc, stderr, exit_status, export_calls>>
vars == <<recipeVars, parseVars, scriptVars>>

----------------------------------------------------------------------------
\* Bounds of the model

\* longest run of digits in a generated _parse_version argument
MaxDigits == 2
\* longest middle run of digits in a generated tag
MaxTagDigits == 2
\* longest sys.argv generated
MaxArgs == 4

----------------------------------------------------------------------------
\* Characters and strings

Digit == {"0", "1", "2", "3", "4", "5", "6", "7", "8", "9"}
HexDigit == Digit \cup {"a", "b", "c", "d", "e", "f", "A", "B", "C", "D", "E", "F"}
Whitespace == {" ", "\n", "\t"}

DigitVal == [c \in Digit |->
    CASE c = "0" -> 0 [] c = "1" -> 1 [] c = "2" -> 2 [] c = "3" -> 3 [] c = "4" -> 4
      [] c = "5" -> 5 [] c = "6" -> 6 [] c = "7" -> 7 [] c = "8" -> 8 [] c = "9" -> 9]

\* int(s) for a string of decimal digits
RECURSIVE int(_)
int(s) == IF s = <<>> THEN 0 ELSE 10 * int(SubSeq(s, 1, Len(s) - 1)) + DigitVal[s[Len(s)]]

\* s[i:j] with Python's clamping, for 1-based i and exclusive end j
Slice(s, i, j) == SubSeq(s, i, (IF j - 1 > Len(s) THEN Len(s) ELSE j - 1))

\* s[:n]
Truncate(s, n) == Slice(s, 1, n + 1)

IsPrefix(p, s) == Len(p) <= Len(s) /\ SubSeq(s, 1, Len(p)) = p

\* str.strip()
RECURSIVE LStrip(_)
LStrip(s) == IF s # <<>> /\ s[1] \in Whitespace THEN LStrip(Tail(s)) ELSE s
RECURSIVE RStrip(_)
RStrip(s) == IF s # <<>> /\ s[Len(s)] \in Whitespace THEN RStrip(SubSeq(s, 1, Len(s) - 1)) ELSE s
strip(s) == LStrip(RStrip(s))

----------------------------------------------------------------------------
\* Regular expressions, as Python's backtracking matcher evaluates them

\* first position at or after i whose character is not in Class (greedy Class*)
RECURSIVE SpanEnd(_, _, _)
SpanEnd(s, i, Class) == IF i <= Len(s) /\ s[i] \in Class THEN SpanEnd(s, i + 1, Class) ELSE i

\* the ends (exclusive) that \d+ can take when it starts at i
DigitsEnds(s, i) == (i + 1)..SpanEnd(s, i, Digit)

\* an unescaped '.' at position i: any character but a newline
DotAt(s, i) == i <= Len(s) /\ s[i] # "\n"

\* all the ways \d+.\d+.\d+ matches from position p: <<e1, e2, e3>> are the
\* ends (exclusive) of the three runs of digits
NumberSplits(s, p) ==
    UNION { UNION { { <<e1, e2, e3>> : e3 \in DigitsEnds(s, e2 + 1) }
                    : e2 \in {e \in DigitsEnds(s, e1 + 1) : DotAt(s, e)} }
            : e1 \in {e \in DigitsEnds(s, p) : DotAt(s, e)} }

LexLeq(u, t) ==
    \/ u[1] < t[1]
    \/ u[1] = t[1] /\ u[2] < t[2]
    \/ u[1] = t[1] /\ u[2] = t[2] /\ u[3] <= t[3]

\* greedy quantifiers: the matcher returns the first match in the order
\* longest first run, then longest second run, then longest third run
Greedy(S) == CHOOSE t \in S : \A u \in S : LexLeq(u, t)

None == [isNone |-> TRUE]

DirtySuffix == <<".", "d", "i", "r", "t", "y">>

\* the matches of (\d+).(\d+).(\d+)\+([a-fA-F0-9]+) at the start of the string
VersionSplits(s) ==
    {t \in NumberSplits(s, 1) :
        /\ t[3] <= Len(s) /\ s[t[3]] = "+"
        /\ t[3] + 1 <= Len(s) /\ s[t[3] + 1] \in HexDigit}

\* variant: the hash group takes one character only ([a-fA-F0-9]+?)
_parse_version_lazy_hash(s) ==
    IF VersionSplits(s) = {} THEN None
    ELSE LET t == Greedy(VersionSplits(s))
             h == t[3] + 2
             group5 == Slice(s, h, h + Len(DirtySuffix)) = DirtySuffix
         IN [major  |-> int(SubSeq(s, 1, t[1] - 1)),
             minor  |-> int(SubSeq(s, t[1] + 1, t[2] - 1)),
             patch  |-> int(SubSeq(s, t[2] + 1, t[3] - 1)),
             commit |-> SubSeq(s, t[3] + 1, h - 1),
             clean  |-> ~group5]

_parse_version(s) ==
    IF VersionSplits(s) = {} THEN None
    ELSE LET t == Greedy(VersionSplits(s))
             h == SpanEnd(s, t[3] + 1, HexDigit)
             group5 == Slice(s, h, h + Len(DirtySuffix)) = DirtySuffix
         IN [major  |-> int(SubSeq(s, 1, t[1] - 1)),
             minor  |-> int(SubSeq(s, t[1] + 1, t[2] - 1)),
             patch  |-> int(SubSeq(s, t[2] + 1, t[3] - 1)),
             commit |-> SubSeq(s, t[3] + 1, h - 1),
             clean  |-> ~group5]

----------------------------------------------------------------------------
\* conanfile.py: set_version

\* the outcome of a source-control read that raised
GitError == <<"GitError">>

Placeholder == <<"0", ".", "0", ".", "0">>

GIT_SHORT_HASH_LENGH == 12

\* re.match(r"v?(\d+.\d+.\d+)", latest_tag): the optional v is tried first,
\* and given up when the rest does not match after it
TagStarts(t) == IF t # <<>> /\ t[1] = "v" THEN <<2, 1>> ELSE <<1>>

TagMatch(t) ==
    LET ok == {k \in DOMAIN TagStarts(t) : NumberSplits(t, TagStarts(t)[k]) # {}}
    IN IF ok = {} THEN None
       ELSE LET k == CHOOSE k \in ok : \A l \in ok : k <= l
                p == TagStarts(t)[k]
                e == Greedy(NumberSplits(t, p))
            IN [start |-> p, ends |-> e, group1 |-> SubSeq(t, p, e[3] - 1)]

\* variant: the placeholder is assigned after the tag has been read
TagBlockLatePlaceholder(ver, tagOutcome) ==
    IF tagOutcome = GitError THEN [version |-> <<>>, exc |-> TRUE]
    ELSE LET latest_tag == strip(tagOutcome)
             result == TagMatch(latest_tag)
         IN [version |-> IF result # None THEN result.group1 ELSE ver, exc |-> FALSE]

\* body of the first try statement; exc tells whether it raised
TagBlock(ver, tagOutcome) ==
    IF tagOutcome = GitError THEN [version |-> ver, exc |-> TRUE]
    ELSE LET latest_tag == strip(tagOutcome)
             result == TagMatch(latest_tag)
         IN [version |-> IF result # None THEN result.group1 ELSE ver, exc |-> FALSE]

\* variant: the suffix is appended when the tree is pristine
RevisionBlockInverted(ver, revOutcome, statusOk, dirty) ==
    IF revOutcome = GitError THEN [version |-> ver, exc |-> TRUE]
    ELSE LET withHash == ver \o <<"+">> \o Truncate(revOutcome, GIT_SHORT_HASH_LENGH)
         IN IF ~statusOk THEN [version |-> withHash, exc |-> TRUE]
            ELSE [version |-> IF ~dirty THEN withHash \o DirtySuffix ELSE withHash,
                  exc |-> FALSE]

\* body of the second try statement
RevisionBlock(ver, revOutcome, statusOk, dirty) ==
    IF revOutcome = GitError THEN [version |-> ver, exc |-> TRUE]
    ELSE LET withHash == ver \o <<"+">> \o Truncate(revOutcome, GIT_SHORT_HASH_LENGH)
         IN IF ~statusOk THEN [version |-> withHash, exc |-> TRUE]
            ELSE [version |-> IF dirty THEN withHash \o DirtySuffix ELSE withHash,
                  exc |-> FALSE]

\* variant: no except clause
ExceptNothing(r) == r

\* except Exception: pass
ExceptPass(r) == [r EXCEPT !.exc = FALSE]

set_version(tagOutcome, revOutcome, statusOk, dirty) ==
    LET r1 == ExceptPass(TagBlock(Placeholder, tagOutcome))
    IN IF r1.exc THEN r1
       ELSE ExceptPass(RevisionBlock(r1.version, revOutcome, statusOk, dirty))

SetVersion ==
    /\ pc = "init"
    /\ LET r == set_version(git_tag, git_revision, status_ok, tree_dirty)
       IN /\ version' = r.version
          /\ raised' = IF r.exc THEN "set_version" ELSE "none"
          /\ pc' = IF r.exc THEN "failed" ELSE "versioned"
    /\ UNCHANGED <<git_tag, git_revision, status_ok, tree_dirty,
                   tc_variables, tc_generated, calls>>
    /\ UNCHANGED <<parseVars, scriptVars>>

----------------------------------------------------------------------------
\* conanfile.py: generate

VersionVariables == {"KHEPRI_VERSION_MAJOR", "KHEPRI_VERSION_MINOR", "KHEPRI_VERSION_PATCH",
                     "KHEPRI_VERSION_COMMIT", "KHEPRI_VERSION_CLEAN"}

\* str(b) for a bool
str(b) == IF b THEN <<"T", "r", "u", "e">> ELSE <<"F", "a", "l", "s", "e">>

\* str.lower()
LowerChar(c) ==
    CASE c = "A" -> "a" [] c = "B" -> "b" [] c = "C" -> "c" [] c = "D" -> "d"
      [] c = "E" -> "e" [] c = "F" -> "f" [] c = "T" -> "t" [] OTHER -> c
lower(s) == [i \in 1..Len(s) |-> LowerChar(s[i])]

\* variant: the clean flag is forwarded whether or not the version was parsed
ForwardedVariablesDefaultClean(ver) ==
    LET version_info == _parse_version(ver)
    IN IF version_info # None
       THEN [KHEPRI_VERSION_MAJOR  |-> version_info.major,
             KHEPRI_VERSION_MINOR  |-> version_info.minor,
             KHEPRI_VERSION_PATCH  |-> version_info.patch,
             KHEPRI_VERSION_COMMIT |-> version_info.commit,
             KHEPRI_VERSION_CLEAN  |-> lower(str(version_info.clean))]
       ELSE [KHEPRI_VERSION_CLEAN |-> lower(str(FALSE))]

\* the entries generate() stores in tc.variables
ForwardedVariables(ver) ==
    LET version_info == _parse_version(ver)
    IN IF version_info # None
       THEN [KHEPRI_VERSION_MAJOR  |-> version_info.major,
             KHEPRI_VERSION_MINOR  |-> version_info.minor,
             KHEPRI_VERSION_PATCH  |-> version_info.patch,
             KHEPRI_VERSION_COMMIT |-> version_info.commit,
             KHEPRI_VERSION_CLEAN  |-> lower(str(version_info.clean))]
       ELSE <<>>

Generate ==
    /\ pc = "versioned"
    /\ tc_variables' = ForwardedVariables(version)
    /\ tc_generated' = TRUE
    /\ pc' = "generated"
    /\ UNCHANGED <<git_tag, git_revision, status_ok, tree_dirty, version, calls, raised>>
    /\ UNCHANGED <<parseVars, scriptVars>>

----------------------------------------------------------------------------
\* conanfile.py: build and package

\* variant: a failing step does not stop the method
RunStepsIgnoringFailure(steps, outcomes) ==
    [i \in 1..Len(steps) |-> [step |-> steps[i], ok |-> outcomes[i]]]

\* the CMake steps a method invokes one after the other; outcomes[i] tells
\* whether the i-th succeeds, and a failing step raises out of the method
RECURSIVE RunSteps(_, _)
RunSteps(steps, outcomes) ==
    IF steps = <<>> THEN <<>>
    ELSE LET call == [step |-> Head(steps), ok |-> Head(outcomes)]
         IN IF call.ok THEN <<call>> \o RunSteps(Tail(steps), Tail(outcomes))
            ELSE <<call>>

Failed(log) == \E i \in DOMAIN log : ~log[i].ok

BuildSteps == <<"configure", "build", "test">>
PackageSteps == <<"install">>

Build ==
    /\ pc = "generated"
    /\ \E outcomes \in [1..Len(BuildSteps) -> BOOLEAN] :
         LET log == RunSteps(BuildSteps, outcomes)
         IN /\ calls' = calls \o log
            /\ raised' = IF Failed(log) THEN "build" ELSE raised
            /\ pc' = IF Failed(log) THEN "failed" ELSE "built"
    /\ UNCHANGED <<git_tag, git_revision, status_ok, tree_dirty, version,
                   tc_variables, tc_generated>>
    /\ UNCHANGED <<parseVars, scriptVars>>

\* the package manager calls package() only after build() has returned
Package ==
    /\ pc = "built"
    /\ \E outcomes \in [1..Len(PackageSteps) -> BOOLEAN] :
         LET log == RunSteps(PackageSteps, outcomes)
         IN /\ calls' = calls \o log
            /\ raised' = IF Failed(log) THEN "package" ELSE raised
            /\ pc' = IF Failed(log) THEN "failed" ELSE "packaged"
    /\ UNCHANGED <<git_tag, git_revision, status_ok, tree_dirty, version,
                   tc_variables, tc_generated>>
    /\ UNCHANGED <<parseVars, scriptVars>>

----------------------------------------------------------------------------
\* ExportCollada.py

ErrorMessage == "export.py: error: missing output path argument"

\* variant: the position of the last x
indexLast(list, x) ==
    IF \E i \in DOMAIN list : list[i] = x
    THEN <<"ok", (CHOOSE i \in DOMAIN list : list[i] = x /\ \A j \in (i + 1)..Len(list) : list[j] # x) - 1>>
    ELSE <<"ValueError">>

\* list.index(x): the 0-based position of the first x, or ValueError
index(list, x) ==
    IF \E i \in DOMAIN list : list[i] = x
    THEN <<"ok", (CHOOSE i \in DOMAIN list : list[i] = x /\ \A j \in 1..(i - 1) : list[j] # x) - 1>>
    ELSE <<"ValueError">>

\* list[k] for a 0-based non-negative k, or IndexError
getitem(list, k) == IF k + 1 \in DOMAIN list THEN <<"ok", list[k + 1]>> ELSE <<"IndexError">>

\* variant: sys.argv[sys.argv.index("--")]
OutputPathNoOffset(args) ==
    LET i == index(args, "--")
    IN IF i[1] = "ValueError" THEN i ELSE getitem(args, i[2])

\* line 14: the output path, or the exception that sys.argv[sys.argv.index("--") + 1] raises
OutputPath(args) ==
    LET i == index(args, "--")
    IN IF i[1] = "ValueError" THEN i ELSE getitem(args, i[2] + 1)

\* whether the except clause catches the exception
Caught(r) == r[1] \in {"ValueError", "IndexError"}

ExportScript ==
    /\ script_pc = "start"
    /\ script_pc' = "done"
    /\ LET r == OutputPath(argv)
       IN IF Caught(r)
          THEN /\ stderr' = Append(stderr, ErrorMessage)
               /\ exit_status' = 1
               /\ export_calls' = export_calls
          ELSE \* the export raises or not; the host tool decides the status when it does
               \E exportOk \in BOOLEAN, hostStatus \in {0, 1} :
                  /\ export_calls' = Append(export_calls, [filepath |-> r[2], ok |-> exportOk])
                  /\ stderr' = IF exportOk THEN stderr ELSE Append(stderr, "Traceback")
                  /\ exit_status' = IF exportOk THEN 0 ELSE hostStatus
    /\ UNCHANGED argv
    /\ UNCHANGED <<recipeVars, parseVars>>

----------------------------------------------------------------------------
\* A direct call of _parse_version

Parse ==
    /\ parse_pc = "call"
    /\ parsed' = _parse_version(input)
    /\ parse_pc' = "returned"
    /\ UNCHANGED input
    /\ UNCHANGED <<recipeVars, scriptVars>>

----------------------------------------------------------------------------
\* Initial states and specifications

\* the non-empty strings over Alphabet of length at most n
Strings(Alphabet, n) == UNION {[1..k -> Alphabet] : k \in 1..n}

RecipeIdle ==
    /\ pc = "idle" /\ git_tag = GitError /\ git_revision = GitError
    /\ status_ok = FALSE /\ tree_dirty = FALSE /\ version = <<>>
    /\ tc_variables = <<>> /\ tc_generated = FALSE /\ calls = <<>> /\ raised = "none"

ParseIdle == input = <<>> /\ parse_pc = "idle" /\ parsed = None

ScriptIdle ==
    /\ argv = <<>> /\ script_pc = "idle" /\ stderr = <<>>
    /\ exit_status = 0 /\ export_calls = <<>>

\* what "git describe --tags --abbrev=0" can print: a tag and a newline
TagOutputs ==
    { prefix \o n1 \o s1 \o n2 \o s2 \o n3 \o rest \o <<"\n">> :
        prefix \in {<<>>, <<"v">>},
        n1 \in Strings({"1", "2"}, 1), s1 \in {<<".">>, <<"-">>},
        n2 \in Strings({"1", "2"}, MaxTagDigits), s2 \in {<<".">>, <<>>},
        n3 \in Strings({"1", "2"}, 1), rest \in {<<>>, <<"+", "5">>} }
    \cup { <<"r", "c", "1", "\n">> }

Revisions ==
    { <<"0", "1", "a", "b", "c", "d", "e", "f", "2", "3", "4", "5", "6", "7">>,
      <<"9", "8", "7", "6", "5", "4", "3", "2", "1", "0", "9", "8", "7">> }

\* the recipe object as the package manager creates it, in any checkout
Init ==
    /\ pc = "init"
    /\ git_tag \in TagOutputs \cup {GitError}
    /\ git_revision \in Revisions \cup {GitError}
    /\ status_ok \in BOOLEAN
    /\ tree_dirty \in BOOLEAN
    /\ version = <<>>
    /\ tc_variables = <<>>
    /\ tc_generated = FALSE
    /\ calls = <<>>
    /\ raised = "none"
    /\ ParseIdle /\ ScriptIdle

Next == SetVersion \/ Generate \/ Build \/ Package

Spec == Init /\ [][Next]_vars

\* the arguments _parse_version is called with
ParseInputs ==
    { n1 \o s1 \o n2 \o s2 \o n3 \o plus \o h \o rest :
        n1 \in Strings({"0", "7"}, MaxDigits), s1 \in {<<".">>, <<"x">>, <<>>},
        n2 \in Strings({"0", "7"}, MaxDigits), s2 \in {<<".">>, <<"\n">>, <<>>},
        n3 \in Strings({"0", "7"}, MaxDigits), plus \in {<<"+">>, <<>>},
        h \in {<<"a">>, <<"F", "0", "d">>, <<"g">>},
        rest \in {<<>>, DirtySuffix, DirtySuffix \o <<"x">>, <<"z">>} }

InitParse ==
    /\ input \in ParseInputs
    /\ parse_pc = "call"
    /\ parsed = None
    /\ RecipeIdle /\ ScriptIdle

NextParse == Parse

SpecParse == InitParse /\ [][NextParse]_vars

\* the command lines the script is run with
Arguments == {"blender", "-P", "--", "scene.dae"}

InitExport ==
    /\ argv \in UNION {[1..k -> Arguments] : k \in 0..MaxArgs}
    /\ script_pc = "start"
    /\ stderr = <<>>
    /\ exit_status = 0
    /\ export_calls = <<>>
    /\ RecipeIdle /\ ParseIdle

NextExport == ExportScript

SpecExport == InitExport /\ [][NextExport]_vars

----------------------------------------------------------------------------
\* Properties of _parse_version (checked under SpecParse)

\* the value of a string of decimal digits, most significant digit first
RECURSIVE Horner(_, _)
Horner(s, acc) == IF s = <<>> THEN acc ELSE Horner(Tail(s), 10 * acc + DigitVal[Head(s)])

\* a left-to-right scan of the form N.N.N+H[.dirty] with literal separators:
\* the positions of the two dots, of the plus, and of the end of H
ScanDot1(s) == SpanEnd(s, 1, Digit)
ScanDot2(s) == SpanEnd(s, ScanDot1(s) + 1, Digit)
ScanPlus(s) == SpanEnd(s, ScanDot2(s) + 1, Digit)
ScanHashEnd(s) == SpanEnd(s, ScanPlus(s) + 1, HexDigit)
ScanRest(s) == SubSeq(s, ScanHashEnd(s), Len(s))

WellFormed(s) ==
    /\ ScanDot1(s) > 1 /\ ScanDot1(s) <= Len(s) /\ s[ScanDot1(s)] = "."
    /\ ScanDot2(s) > ScanDot1(s) + 1 /\ ScanDot2(s) <= Len(s) /\ s[ScanDot2(s)] = "."
    /\ ScanPlus(s) > ScanDot2(s) + 1 /\ ScanPlus(s) <= Len(s) /\ s[ScanPlus(s)] = "+"
    /\ ScanHashEnd(s) > ScanPlus(s) + 1
    /\ ScanRest(s) \in {<<>>, DirtySuffix}

\* C1: for an argument of the form N.N.N+H or N.N.N+H.dirty, _parse_version
\* returns a record whose major, minor and patch are the values of the three
\* N, whose commit is H, and which is dirty (its clean entry is false) if and
\* only if the .dirty suffix is present
C1_ParsesWellFormed ==
    (parse_pc = "returned" /\ WellFormed(input)) =>
        /\ parsed # None
        /\ parsed.major = Horner(SubSeq(input, 1, ScanDot1(input) - 1), 0)
        /\ parsed.minor = Horner(SubSeq(input, ScanDot1(input) + 1, ScanDot2(input) - 1), 0)
        /\ parsed.patch = Horner(SubSeq(input, ScanDot2(input) + 1, ScanPlus(input) - 1), 0)
        /\ parsed.commit = SubSeq(input, ScanPlus(input) + 1, ScanHashEnd(input) - 1)
        /\ (~parsed.clean) <=> (ScanRest(input) = DirtySuffix)

C1_Witness ==
    /\ parse_pc = "returned" /\ WellFormed(input)
    /\ ScanRest(input) = DirtySuffix
    /\ parsed # None /\ ~parsed.clean /\ parsed.minor = 70 /\ Len(parsed.commit) = 3

\* C2: for an argument that is not of the form N.N.N+H[.dirty],
\* _parse_version returns None
C2_RejectsOtherStrings ==
    (parse_pc = "returned" /\ ~WellFormed(input)) => parsed = None

----------------------------------------------------------------------------
\* Properties of the recipe (checked under Spec)

EndsWith(s, suffix) ==
    Len(suffix) <= Len(s) /\ SubSeq(s, Len(s) - Len(suffix) + 1, Len(s)) = suffix

\* the first 12 characters of the revision read
ShortHash == [i \in 1..GIT_SHORT_HASH_LENGH |-> git_revision[i]]

\* C3: when the tag lookup fails, set_version leaves one of 0.0.0,
\* 0.0.0+<hash> and 0.0.0+<hash>.dirty in self.version
C3_PlaceholderOnTagFailure ==
    (pc # "init" /\ git_tag = GitError) =>
        \/ version = Placeholder
        \/ /\ git_revision # GitError
           /\ version \in {Placeholder \o <<"+">> \o ShortHash,
                           Placeholder \o <<"+">> \o ShortHash \o DirtySuffix}

C3_Witness ==
    /\ pc = "versioned" /\ git_tag = GitError /\ git_revision # GitError
    /\ version = Placeholder \o <<"+">> \o ShortHash \o DirtySuffix

\* the strings a tag can contribute: a piece of the stripped tag that starts
\* with a digit, at its beginning or after a leading v
TagPieces ==
    IF git_tag = GitError THEN {}
    ELSE LET t == strip(git_tag)
         IN {SubSeq(t, i, j) : <<i, j>> \in
                {x \in (1..2) \X (1..Len(t)) :
                    /\ x[1] <= x[2] /\ t[x[1]] \in Digit
                    /\ x[1] = 2 => t[1] = "v"}}

\* C4: whatever reads fail, set_version returns without raising and leaves a
\* non-empty version that starts with the placeholder or with the version
\* taken from the tag
C4_SetVersionNeverRaises ==
    pc # "init" =>
        /\ raised # "set_version"
        /\ version # <<>>
        /\ \/ IsPrefix(Placeholder, version)
           \/ \E piece \in TagPieces :
                /\ IsPrefix(piece, version)
                /\ Len(version) > Len(piece) => version[Len(piece) + 1] = "+"

C4_Witness ==
    /\ pc = "versioned" /\ raised = "none"
    /\ git_tag = GitError /\ git_revision = GitError /\ ~status_ok
    /\ version = Placeholder

\* the version after the first try statement
Base == set_version(git_tag, GitError, FALSE, FALSE).version

\* C7 as stated: when the revision is read the version gets + and the first
\* 12 characters of the revision, then .dirty if and only if the working
\* tree has uncommitted changes; when it is not read, nothing is appended
C7_DirtyIffUncommitted ==
    pc # "init" =>
        version = Base \o
            (IF git_revision # GitError
             THEN <<"+">> \o ShortHash \o (IF tree_dirty THEN DirtySuffix ELSE <<>>)
             ELSE <<>>)

\* C7: as above, but .dirty is appended if and only if the pristine check
\* succeeds and reports uncommitted changes
C7_DirtyIffCheckReportsChanges ==
    pc # "init" =>
        version = Base \o
            (IF git_revision # GitError
             THEN <<"+">> \o ShortHash \o
                  (IF status_ok /\ tree_dirty THEN DirtySuffix ELSE <<>>)
             ELSE <<>>)

C7_Witness ==
    /\ pc = "versioned" /\ git_revision # GitError /\ status_ok /\ tree_dirty
    /\ git_tag # GitError /\ ~IsPrefix(Placeholder, version)
    /\ EndsWith(version, <<"+">> \o ShortHash \o DirtySuffix)

StepOrder == <<"configure", "build", "test", "install">>

\* C8: the steps run in the order configure, build, test, install, each at
\* most once, install only from package(); a failing step is the last one
\* invoked and its failure reaches the package manager
C8_StepsInOrderFailureFatal ==
    /\ Len(calls) <= Len(StepOrder)
    /\ \A i \in DOMAIN calls : calls[i].step = StepOrder[i]
    /\ \A i \in DOMAIN calls : i < Len(calls) => calls[i].ok
    /\ Len(calls) = Len(StepOrder) => pc \in {"packaged", "failed"}
    /\ (calls # <<>> /\ ~calls[Len(calls)].ok) =>
            /\ pc = "failed"
            /\ raised = (IF Len(calls) = Len(StepOrder) THEN "package" ELSE "build")
    /\ pc = "built" => Len(calls) = Len(BuildSteps)
    /\ pc = "packaged" => Len(calls) = Len(StepOrder)

C8_Witness ==
    /\ pc = "failed" /\ raised = "build"
    /\ Len(calls) = 2 /\ calls[1].ok /\ ~calls[2].ok

\* C9: generate() sets all five KHEPRI_VERSION_* variables when
\* _parse_version returns a record for self.version, with CLEAN one of the
\* strings true and false, and none of them when it returns None; the
\* toolchain is generated and nothing is raised in both cases
C9_VariablesAllOrNothing ==
    /\ pc \notin {"init", "versioned"} => tc_generated
    /\ pc = "generated" => raised = "none"
    /\ tc_generated =>
        IF _parse_version(version) # None
        THEN /\ DOMAIN tc_variables = VersionVariables
             /\ tc_variables.KHEPRI_VERSION_CLEAN \in
                    {<<"t", "r", "u", "e">>, <<"f", "a", "l", "s", "e">>}
        ELSE DOMAIN tc_variables \cap VersionVariables = {}
    /\ ~tc_generated => DOMAIN tc_variables = {}

C9_Witness ==
    /\ pc = "generated" /\ tc_generated
    /\ DOMAIN tc_variables = VersionVariables
    /\ tc_variables.KHEPRI_VERSION_CLEAN = <<"f", "a", "l", "s", "e">>

\* the three numbers of the latest tag as the tag pattern reads them, or
\* 0, 0, 0 when the lookup failed or the tag did not match
TagNumbers ==
    IF git_tag = GitError \/ TagMatch(strip(git_tag)) = None THEN <<0, 0, 0>>
    ELSE LET t == strip(git_tag)
             m == TagMatch(t)
         IN <<Horner(SubSeq(t, m.start, m.ends[1] - 1), 0),
              Horner(SubSeq(t, m.ends[1] + 1, m.ends[2] - 1), 0),
              Horner(SubSeq(t, m.ends[2] + 1, m.ends[3] - 1), 0)>>

\* C10, first half: when the revision read and the pristine check succeed,
\* _parse_version gives back the numbers of the tag, the short hash and the
\* result of the pristine check
RoundTripWithRevision ==
    (pc = "versioned" /\ git_revision # GitError /\ status_ok) =>
        LET r == _parse_version(version)
        IN /\ r # None
           /\ <<r.major, r.minor, r.patch>> = TagNumbers
           /\ r.commit = ShortHash
           /\ r.clean = ~tree_dirty

\* C10, second half: when the revision read fails _parse_version returns None
NoRecordWithoutRevision ==
    (pc = "versioned" /\ git_revision = GitError) => _parse_version(version) = None

\* C10: round trip between set_version and _parse_version
C10_RoundTrip == RoundTripWithRevision /\ NoRecordWithoutRevision

----------------------------------------------------------------------------
\* Properties of ExportCollada.py (checked under SpecExport)

Separators == {i \in DOMAIN argv : argv[i] = "--"}
FirstSeparator == CHOOSE i \in Separators : \A j \in Separators : i <= j

MissingPathOutcome ==
    /\ stderr = <<ErrorMessage>>
    /\ exit_status = 1
    /\ export_calls = <<>>

\* C5 as stated: with no -- in the argument list, or with -- as its last
\* element, the script writes the error message, exits with status 1 and
\* does not invoke the export
C5_MissingPathWhenLastIsSeparator ==
    (script_pc = "done" /\ (Separators = {} \/ argv[Len(argv)] = "--")) =>
        MissingPathOutcome

\* C5: with no -- in the argument list, or with the first -- as its last
\* element, the script writes the error message, exits with status 1 and
\* does not invoke the export
C5_MissingPathWhenFirstSeparatorIsLast ==
    (script_pc = "done" /\ (Separators = {} \/ FirstSeparator = Len(argv))) =>
        MissingPathOutcome

C5_Witness ==
    /\ script_pc = "done" /\ Separators # {} /\ FirstSeparator = Len(argv)
    /\ Len(argv) > 1 /\ MissingPathOutcome

\* C6: with -- followed by at least one element, the export is invoked once
\* with the element after the first --, the error message is not written,
\* and the status is 0 when the export returns
C6_ExportsOnceWithPath ==
    (script_pc = "done" /\ Separators # {} /\ FirstSeparator < Len(argv)) =>
        /\ Len(export_calls) = 1
        /\ export_calls[1].filepath = argv[FirstSeparator + 1]
        /\ \A i \in DOMAIN stderr : stderr[i] # ErrorMessage
        /\ export_calls[1].ok => (exit_status = 0 /\ stderr = <<>>)

C6_Witness ==
    /\ script_pc = "done" /\ Cardinality(Separators) = 2
    /\ Len(export_calls) = 1 /\ export_calls[1].ok
    /\ export_calls[1].filepath = "scene.dae" /\ exit_status = 0

====
